---------------------------- MODULE Spec2Model ----------------------------
(***************************************************************************)
(* Model of testing.py, the environment verification script:               *)
(*                                                                         *)
(*   1  from rfdetr import RFDETRSmall                                     *)
(*   2  import supervision as sv                                           *)
(*   3  from PIL import Image                                              *)
(*   4  import torch                                                       *)
(*   6  print(f"<glyph> PyTorch: {torch.__version__}")                     *)
(*   7  print(f"<glyph> CUDA available: {torch.cuda.is_available()}")      *)
(*   8  print("<glyph> All libraries loaded successfully!")                *)
(*                                                                         *)
(* One process executes the seven statements in order.  A statement that   *)
(* raises is not caught anywhere, so the interpreter exits with status 1.  *)
(* The environment (which packages import, what torch reports, which       *)
(* queries raise, how many writes standard output accepts) is chosen in    *)
(* Init and never written by the script; the script is run Runs times in   *)
(* it.                                                                     *)
(***************************************************************************)
EXTENDS Naturals, Sequences, FiniteSets

\* ---------------------------------------------------------------- bounds

\* How many times the script is run in the same environment.
Runs == 2

\* Largest number of writes standard output may accept before a write fails
\* (closed pipe, full disk).  The script writes three lines, so any value
\* >= 3 is an output stream that never fails.
MaxWrites == 3

\* Cap on the statements one run may execute.  The script has seven
\* statements and no loop, so the cap is never the reason a run stops.
MaxSteps == 8

\* ------------------------------------------------------- program constants

\* The check mark U+2705 that opens every output line (SANY reads ASCII only).
Glyph == "[U+2705]"

\* The packages imported by lines 1-4, in source order.
ImportOrder == <<"rfdetr", "supervision", "PIL", "torch">>

Deps == {ImportOrder[i] : i \in 1..Len(ImportOrder)}

\* Faulty variant: the two f-string prints exchanged.
ProgramCudaFirst ==
    << "import_rfdetr", "import_supervision", "import_PIL", "import_torch",
       "print_cuda", "print_version", "print_done" >>

\* Faulty variant: torch imported before the other three packages.
ProgramTorchFirst ==
    << "import_torch", "import_rfdetr", "import_supervision", "import_PIL",
       "print_version", "print_cuda", "print_done" >>

\* The statements of the script in source order.
Program ==
    << "import_rfdetr", "import_supervision", "import_PIL", "import_torch",
       "print_version", "print_cuda", "print_done" >>

\* Values torch.__version__ may hold in an environment.
Versions == {"2.1.0", "2.3.1+cu121", ""}

\* The two attribute/call expressions evaluated inside the f-strings.
Queries == {"version", "cuda"}

\* Uncaught exception: CPython prints the traceback and exits with status 1.
UncaughtStatus == 1

\* Falling off the end of the module: exit status 0.
SuccessStatus == 0

VARIABLES
    env,        \* the executing environment, never written by the script
    run,        \* which run of the script is executing (1..Runs)
    pc,         \* the statement about to execute, or "exited"
    stdout,     \* lines written to standard output by the current run
    attempted,  \* packages whose import the current run has attempted
    queried,    \* queries the current run has evaluated
    steps,      \* statements the current run has executed
    results     \* per finished run: its output and exit status

vars == <<env, run, pc, stdout, attempted, queried, steps, results>>

Environments ==
    [ importable : SUBSET Deps,       \* packages whose import succeeds
      version    : Versions,          \* torch.__version__
      cuda       : BOOLEAN,           \* torch.cuda.is_available()
      raises     : SUBSET Queries,    \* queries that raise when evaluated
      capacity   : 0..MaxWrites ]     \* writes stdout accepts before failing

\* ------------------------------------------------------------- formatting

\* Faulty variant: a precision in the format spec, f"{x:.5}".
FormatStrTruncated(s) == IF Len(s) > 5 THEN SubSeq(s, 1, 5) ELSE s

\* f"{x}" for a str x: format(x, "") is str.__format__, the text itself.
FormatStr(s) == s

\* Faulty variant: the flag formatted as an integer, f"{b:d}".
FormatBoolInt(b) == IF b THEN "1" ELSE "0"

\* f"{b}" for a bool b: format(b, "") is str(b).
FormatBool(b) == IF b THEN "True" ELSE "False"

VersionLabel == Glyph \o " PyTorch: "
CudaLabel == Glyph \o " CUDA available: "

VersionLine(v) == VersionLabel \o FormatStr(v)
CudaLine(b) == CudaLabel \o FormatBool(b)
\* Faulty variant: the confirmation line without its glyph.
DoneLineNoGlyph == "All libraries loaded successfully!"

DoneLine == Glyph \o " All libraries loaded successfully!"

\* ------------------------------------------------------------ control flow

IndexOf(stmt) == CHOOSE i \in 1..Len(Program) : Program[i] = stmt

\* The statement after stmt; falling off the end of the module exits.
Successor(stmt) ==
    IF IndexOf(stmt) < Len(Program) THEN Program[IndexOf(stmt) + 1] ELSE "exited"

\* The interpreter exits: the run's output and status become its result.
Exit(out, code) ==
    /\ pc' = "exited"
    /\ results' = Append(results, [out |-> out, status |-> code])

\* Faulty variant: the exception is caught and the process exits normally.
RaiseSilently == Exit(stdout, SuccessStatus)

\* Faulty variant: the failing statement is retried until it succeeds.
RaiseRetry == pc' = pc /\ UNCHANGED results

\* A statement raised; nothing catches it.
Raise == Exit(stdout, UncaughtStatus)

\* Control passes to the next statement, or the module ends normally.
Advance(out) ==
    IF Successor(pc) = "exited"
    THEN Exit(out, SuccessStatus)
    ELSE pc' = Successor(pc) /\ UNCHANGED results

\* Whether stdout accepts one more line.
WriteOk == Len(stdout) < env.capacity

\* print(line): the line is written and control advances, or the write raises.
WriteLine(line) ==
    IF WriteOk
    THEN stdout' = Append(stdout, line) /\ Advance(Append(stdout, line))
    ELSE stdout' = stdout /\ Raise

\* One statement executes.
Step(stmt) ==
    /\ pc = stmt
    /\ steps < MaxSteps
    /\ steps' = steps + 1
    /\ UNCHANGED <<env, run>>

\* Faulty variant: a failed import is swallowed (try/except around it).
ImportSwallow(stmt, dep) ==
    /\ Step(stmt)
    /\ attempted' = Append(attempted, dep)
    /\ Advance(stdout)
    /\ UNCHANGED <<stdout, queried>>

\* import of package dep (lines 1-4).
Import(stmt, dep) ==
    /\ Step(stmt)
    /\ attempted' = Append(attempted, dep)
    /\ IF dep \in env.importable THEN Advance(stdout) ELSE Raise
    /\ UNCHANGED <<stdout, queried>>

\* ----------------------------------------------------------------- actions

Init ==
    /\ env \in Environments
    /\ run = 1
    /\ pc = Program[1]
    /\ stdout = <<>>
    /\ attempted = <<>>
    /\ queried = {}
    /\ steps = 0
    /\ results = <<>>

ImportRfdetr == Import("import_rfdetr", "rfdetr")

ImportSupervision == Import("import_supervision", "supervision")

ImportPIL == Import("import_PIL", "PIL")

ImportTorch == Import("import_torch", "torch")

\* Line 6: evaluate torch.__version__, then print.
PrintVersion ==
    /\ Step("print_version")
    /\ queried' = queried \cup {"version"}
    /\ IF "version" \in env.raises
       THEN stdout' = stdout /\ Raise
       ELSE WriteLine(VersionLine(env.version))
    /\ UNCHANGED attempted

\* Faulty variant: a raising availability query is caught and line 7 skipped.
PrintCudaCaught ==
    /\ Step("print_cuda")
    /\ queried' = queried \cup {"cuda"}
    /\ IF "cuda" \in env.raises
       THEN stdout' = stdout /\ Advance(stdout)
       ELSE WriteLine(CudaLine(env.cuda))
    /\ UNCHANGED attempted

\* Line 7: evaluate torch.cuda.is_available(), then print.
PrintCuda ==
    /\ Step("print_cuda")
    /\ queried' = queried \cup {"cuda"}
    /\ IF "cuda" \in env.raises
       THEN stdout' = stdout /\ Raise
       ELSE WriteLine(CudaLine(env.cuda))
    /\ UNCHANGED attempted

\* Line 8: print the fixed confirmation line; the module then ends.
PrintDone ==
    /\ Step("print_done")
    /\ WriteLine(DoneLine)
    /\ UNCHANGED <<attempted, queried>>

\* Faulty variant: the second run inherits the first run's output stream.
RerunKeepOutput ==
    /\ pc = "exited"
    /\ run < Runs
    /\ run' = run + 1
    /\ pc' = Program[1]
    /\ attempted' = <<>>
    /\ queried' = {}
    /\ steps' = 0
    /\ UNCHANGED <<env, results, stdout>>

\* The script is started again in the same environment: a fresh process.
Rerun ==
    /\ pc = "exited"
    /\ run < Runs
    /\ run' = run + 1
    /\ pc' = Program[1]
    /\ stdout' = <<>>
    /\ attempted' = <<>>
    /\ queried' = {}
    /\ steps' = 0
    /\ UNCHANGED <<env, results>>

Next ==
    \/ ImportRfdetr
    \/ ImportSupervision
    \/ ImportPIL
    \/ ImportTorch
    \/ PrintVersion
    \/ PrintCuda
    \/ PrintDone
    \/ Rerun

Spec == Init /\ [][Next]_vars

\* Synchronous single-threaded execution: an enabled statement executes.
FairSpec == Spec /\ WF_vars(Next)

\* ---------------------------------------------------------------- helpers

Exited == pc = "exited"

\* The result of the current run, once it has exited.
Result == results[run]

IsPrefix(a, b) == Len(a) <= Len(b) /\ a = SubSeq(b, 1, Len(a))

BeginsWith(line, label) ==
    Len(line) >= Len(label) /\ SubSeq(line, 1, Len(label)) = label

\* Every import of the current run so far succeeded / some import failed.
ImportFailed == \E i \in 1..Len(attempted) : attempted[i] \notin env.importable
AllImported ==
    attempted = <<"rfdetr", "supervision", "PIL", "torch">> /\ ~ImportFailed

\* No statement after the imports can raise in this environment.
NoFaultAfterImports == env.raises = {} /\ env.capacity >= 3

\* Which of the three output lines a line is, by its label (0: none).
LineKind(line) ==
    IF BeginsWith(line, Glyph \o " PyTorch: ") THEN 1
    ELSE IF BeginsWith(line, Glyph \o " CUDA available: ") THEN 2
    ELSE IF line = Glyph \o " All libraries loaded successfully!" THEN 3
    ELSE 0

ThreeGlyphLinesAndZero ==
    /\ Len(Result.out) = 3
    /\ \A i \in 1..3 : BeginsWith(Result.out[i], Glyph)
    /\ Result.status = 0

\* ------------------------------------------------------------------ claims

C2_NoOutputOnImportFailure ==
    env.importable # Deps =>
        /\ stdout = <<>>
        /\ Exited => (Result.out = <<>> /\ Result.status # 0)

C2_Witness ==
    /\ Exited
    /\ env.importable = Deps \ {"torch"}
    /\ env.capacity = 3
    /\ attempted = <<"rfdetr", "supervision", "PIL", "torch">>
    /\ Result.status # 0

\* C3: every step of a run that changes standard output appends exactly one
\* line to it, and that line is the version line when it is the first, the
\* CUDA line when it is the second, the confirmation line when it is the third.
C3_OutputOrder ==
    [][ (run' = run /\ stdout' # stdout) =>
            /\ Len(stdout') = Len(stdout) + 1
            /\ SubSeq(stdout', 1, Len(stdout)) = stdout
            /\ LineKind(stdout'[Len(stdout')]) = Len(stdout') ]_vars

C3_Witness ==
    /\ Len(stdout) = 3
    /\ LineKind(stdout[1]) = 1
    /\ LineKind(stdout[2]) = 2
    /\ LineKind(stdout[3]) = 3

\* C4: the first output line is the fixed prefix followed by the value of
\* torch.__version__, unchanged.
C4_VersionExact ==
    Len(stdout) >= 1 => stdout[1] = Glyph \o " PyTorch: " \o env.version

C4_Witness ==
    /\ Len(stdout) >= 1
    /\ env.version = "2.3.1+cu121"
    /\ stdout[1] = Glyph \o " PyTorch: 2.3.1+cu121"

\* C5: the second output line shows True exactly when the availability query
\* returns True, and False exactly when it returns False.
C5_CudaFlag ==
    Len(stdout) >= 2 =>
        /\ stdout[2] = Glyph \o " CUDA available: True" <=> env.cuda
        /\ stdout[2] = Glyph \o " CUDA available: False" <=> ~env.cuda

C5_Witness ==
    /\ Len(stdout) >= 2
    /\ env.cuda
    /\ stdout[2] = Glyph \o " CUDA available: True"

C7_ExitStatus ==
    Exited =>
        /\ Result.status = 0 <=> (AllImported /\ Len(stdout) = 3)
        /\ ImportFailed => Result.status # 0
        /\ Result.status = 0 => Len(Result.out) >= 3

C7_Witness ==
    /\ Exited
    /\ AllImported
    /\ Len(stdout) = 2
    /\ Result.status # 0

\* C8: imports are attempted in the order rfdetr, supervision, PIL, torch;
\* a failed import is the last one attempted, ends the run at once, and is
\* followed by no query and no output.
C8_FirstFailureEndsRun ==
    /\ IsPrefix(attempted, <<"rfdetr", "supervision", "PIL", "torch">>)
    /\ \A i \in 1..Len(attempted) :
          attempted[i] \notin env.importable =>
              /\ i = Len(attempted)
              /\ Exited
              /\ queried = {}
              /\ stdout = <<>>
    /\ queried # {} => AllImported

C8_Witness ==
    /\ Exited
    /\ attempted = <<"rfdetr", "supervision">>
    /\ "supervision" \notin env.importable
    /\ {"PIL", "torch"} \subseteq env.importable

\* C9: the lines written so far are always a prefix of (version line, CUDA
\* line, confirmation line); a run that exits having written fewer than
\* three lines has a non-zero status; the confirmation line is only ever the
\* third line.
C9_OutputIsPrefix ==
    /\ IsPrefix(stdout, << Glyph \o " PyTorch: " \o env.version,
                           Glyph \o " CUDA available: "
                               \o (IF env.cuda THEN "True" ELSE "False"),
                           Glyph \o " All libraries loaded successfully!" >>)
    /\ (Exited /\ Len(Result.out) < 3) => Result.status # 0
    /\ \A i \in 1..Len(stdout) : LineKind(stdout[i]) = 3 => i = 3

C9_Witness ==
    /\ Exited
    /\ Len(stdout) = 1
    /\ "cuda" \in env.raises
    /\ env.capacity = 3
    /\ Result.out = stdout
    /\ Result.status # 0

\* C10: a run executes at most seven statements, and every run that has
\* started reaches the exited state.
C10_Terminates ==
    /\ [](steps <= 7)
    /\ (~Exited) ~> Exited

C10_Witness ==
    /\ Exited
    /\ run = Runs
    /\ steps = 7
    /\ Len(results) = Runs

===========================================================================
